---- MODULE Spec2Model ----
(***************************************************************************)
(* Model of the kudo REST API (Go, MongoDB through mgo) of the tutorial    *)
(* repository: the MongoRepository (pkg/storage/mongo.go), the kudo        *)
(* Service (pkg/kudo/service.go), the middlewares and the HTTP handlers    *)
(* (pkg/http).                                                             *)
(*                                                                         *)
(* Strings the code computes with (decimal ids, the Authorization header)  *)
(* are sequences of one-character strings; opaque strings (user ids,       *)
(* descriptive fields) are TLA+ strings.  An int64 is its two's complement *)
(* bit pattern in four 16-bit limbs, most significant first, so that the   *)
(* conversions int(x), strconv.Itoa and strconv.Atoi keep their width.     *)
(* The kudos collection is a bag of documents: MongoDB keeps documents     *)
(* with multiplicity and promises no order.                                *)
(***************************************************************************)
EXTENDS Integers, Sequences, FiniteSets, Bags, TLC

VARIABLES
  intSize,  \* strconv.IntSize of the build: the width of Go's int, 32 or 64
  coll,     \* the documents of the "kudos" collection
  resp,     \* the last HTTP exchange: the request and what the server did
  ret,      \* the last direct call of a Repository method and its result
  inflight, \* the Repository calls of concurrent requests the database works on
  observed, \* for each key the last write the database applied
  browser,  \* the page the browser shows and the session of the auth provider
  login,    \* the Login component of the web app
  home      \* the Home component of the web app

vars == <<intSize, coll, resp, ret, inflight, observed, browser, login, home>>

----------------------------------------------------------------------------
(* Bounds of the model *)

\* requests that would make the collection grow beyond this are not issued
MaxDocs == 3
\* longest batch passed to the variadic Create
MaxBatch == 2

----------------------------------------------------------------------------
(* int64 and int values, strconv *)

Limb == 2^16
HalfLimb == 2^15
TopLimb == Limb - 1

I64Zero == <<0, 0, 0, 0>>

IsNeg(x) == x[1] >= HalfLimb

\* x + n (mod 2^64) for a small n >= 0
AddSmall(x, n) ==
  LET s4 == x[4] + n
      s3 == x[3] + (s4 \div Limb)
      s2 == x[2] + (s3 \div Limb)
      s1 == x[1] + (s2 \div Limb)
  IN  <<s1 % Limb, s2 % Limb, s3 % Limb, s4 % Limb>>

\* -x (mod 2^64)
Negate(x) == AddSmall([i \in 1..4 |-> TopLimb - x[i]], 1)

\* the unsigned value of the limbs divided by 10: <<quotient, remainder>>
DivMod10(x) ==
  LET c1 == x[1]
      c2 == (c1 % 10) * Limb + x[2]
      c3 == (c2 % 10) * Limb + x[3]
      c4 == (c3 % 10) * Limb + x[4]
  IN  <<(<<c1 \div 10, c2 \div 10, c3 \div 10, c4 \div 10>>), c4 % 10>>

\* the unsigned value times 10 plus d: <<limbs mod 2^64, carried out of 64 bits>>
MulAdd10(x, d) ==
  LET s4 == x[4] * 10 + d
      s3 == x[3] * 10 + (s4 \div Limb)
      s2 == x[2] * 10 + (s3 \div Limb)
      s1 == x[1] * 10 + (s2 \div Limb)
  IN  <<(<<s1 % Limb, s2 % Limb, s3 % Limb, s4 % Limb>>), s1 \div Limb > 0>>

\* a <= b as unsigned values
RECURSIVE LimbsLE(_, _)
LimbsLE(a, b) ==
  IF a = <<>> THEN TRUE
  ELSE IF Head(a) # Head(b) THEN Head(a) < Head(b)
  ELSE LimbsLE(Tail(a), Tail(b))

DigitChars == <<"0", "1", "2", "3", "4", "5", "6", "7", "8", "9">>
IsDigit(c) == \E n \in 1..10 : DigitChars[n] = c
DigitVal(c) == (CHOOSE n \in 1..10 : DigitChars[n] = c) - 1

\* the decimal digits of an unsigned value, none for zero
RECURSIVE Digits(_)
Digits(x) ==
  IF x = I64Zero THEN <<>>
  ELSE LET qr == DivMod10(x) IN Append(Digits(qr[1]), DigitChars[qr[2] + 1])

\* strconv.FormatInt(x, 10) of an int64
FormatInt(x) ==
  IF x = I64Zero THEN <<"0">>
  ELSE IF IsNeg(x) THEN <<"-">> \o Digits(Negate(x))
  ELSE Digits(x)

\* int64(int(x)): the value Go's int keeps of an int64 (sign-extended back)
IntOf(x) ==
  IF intSize = 64 THEN x
  ELSE IF x[3] >= HalfLimb THEN <<TopLimb, TopLimb, x[3], x[4]>>
  ELSE <<0, 0, x[3], x[4]>>

\* strconv.Itoa(i) of an int i
Itoa(i) == FormatInt(i)

\* largest int and the magnitude of the smallest int of the build
MaxInt == IF intSize = 64 THEN <<HalfLimb - 1, TopLimb, TopLimb, TopLimb>>
          ELSE <<0, 0, HalfLimb - 1, TopLimb>>
MinIntMag == IF intSize = 64 THEN <<HalfLimb, 0, 0, 0>> ELSE <<0, 0, HalfLimb, 0>>

\* the magnitude of a digit string: <<limbs, overflowed 64 bits>>
RECURSIVE ParseMag(_, _, _)
ParseMag(s, acc, over) ==
  IF s = <<>> THEN <<acc, over>>
  ELSE LET m == MulAdd10(acc, DigitVal(Head(s)))
       IN  ParseMag(Tail(s), m[1], over \/ m[2])

\* strconv.Atoi(s): [val |-> the int, err |-> "" | "ErrSyntax" | "ErrRange"]
Atoi(s) ==
  LET signed == s # <<>> /\ Head(s) \in {"+", "-"}
      neg    == s # <<>> /\ Head(s) = "-"
      ds     == IF signed THEN Tail(s) ELSE s
  IN  IF ds = <<>> \/ \E i \in 1..Len(ds) : ~IsDigit(ds[i])
        THEN [val |-> I64Zero, err |-> "ErrSyntax"]
      ELSE LET m == ParseMag(ds, I64Zero, FALSE)
           IN  IF neg
                 THEN IF m[2] \/ ~LimbsLE(m[1], MinIntMag)
                        THEN [val |-> Negate(MinIntMag), err |-> "ErrRange"]
                      ELSE [val |-> Negate(m[1]), err |-> ""]
               ELSE IF m[2] \/ ~LimbsLE(m[1], MaxInt)
                      THEN [val |-> MaxInt, err |-> "ErrRange"]
                    ELSE [val |-> m[1], err |-> ""]

\* strings.Split(s, sep) for a one-character separator
RECURSIVE Split(_, _)
Split(s, sep) ==
  IF \A i \in 1..Len(s) : s[i] # sep THEN <<s>>
  ELSE LET i == CHOOSE j \in 1..Len(s) :
                  s[j] = sep /\ \A k \in 1..(j - 1) : s[k] # sep
       IN  <<SubSeq(s, 1, i - 1)>> \o Split(SubSeq(s, i + 1, Len(s)), sep)

----------------------------------------------------------------------------
(* core.Kudo and its bson and json forms *)

\* the zero value of core.Kudo
ZeroKudo ==
  [UserID |-> "", RepoID |-> <<>>, RepoName |-> "", RepoURL |-> "",
   Language |-> "", Description |-> "", Notes |-> ""]

\* the document bson.Marshal makes of a Kudo (the bson tags of the struct)
ToBson(k) ==
  [userId |-> k.UserID, repoId |-> k.RepoID, repoName |-> k.RepoName,
   repoUrl |-> k.RepoURL, language |-> k.Language,
   description |-> k.Description, notes |-> k.Notes]

\* the Kudo bson.Unmarshal makes of a document
FromBson(d) ==
  [UserID |-> d.userId, RepoID |-> d.repoId, RepoName |-> d.repoName,
   RepoURL |-> d.repoUrl, Language |-> d.language,
   Description |-> d.description, Notes |-> d.notes]

\* the object json.Encode makes of a Kudo (the json tags of the struct)
ToJSON(k) ==
  [user_id |-> k.UserID, id |-> k.RepoID, full_name |-> k.RepoName,
   html_url |-> k.RepoURL, language |-> k.Language,
   description |-> k.Description, notes |-> k.Notes]

----------------------------------------------------------------------------
(* mgo: queries on a collection c.  up: the server is reachable.           *)

\* a Go map without keys: bson.M{}, a new http.Header
EmptyMap == [h \in {} |-> ""]

ErrNotFound == "not found"
ErrUnreachable == "no reachable servers"

\* a document matches a selector when it has every field of it
Matches(d, sel) == \A f \in DOMAIN sel : f \in DOMAIN d /\ d[f] = sel[f]

Matching(c, sel) == {d \in BagToSet(c) : Matches(d, sel)}

\* the first matching document in the order the server keeps, which mgo
\* does not fix
FirstMatch(c, sel) == CHOOSE d \in Matching(c, sel) : TRUE

\* coll.Find(sel).All(&result)
QueryAll(c, up, sel) ==
  IF ~up THEN [err |-> ErrUnreachable, docs |-> EmptyBag]
  ELSE [err |-> "", docs |-> [d \in Matching(c, sel) |-> c[d]]]

\* coll.Find(sel).One(&result)
QueryOne(c, up, sel) ==
  IF ~up THEN [err |-> ErrUnreachable, doc |-> ToBson(ZeroKudo)]
  ELSE IF Matching(c, sel) = {} THEN [err |-> ErrNotFound, doc |-> ToBson(ZeroKudo)]
  ELSE [err |-> "", doc |-> FirstMatch(c, sel)]

\* coll.Remove(sel), the session in safe mode as mgo.Dial leaves it
CollRemove(c, up, sel) ==
  IF ~up THEN [err |-> ErrUnreachable, coll |-> c]
  ELSE IF Matching(c, sel) = {} THEN [err |-> ErrNotFound, coll |-> c]
  ELSE [err |-> "", coll |-> c (-) SetToBag({FirstMatch(c, sel)})]

\* coll.Update(sel, doc)
CollUpdate(c, up, sel, doc) ==
  IF ~up THEN [err |-> ErrUnreachable, coll |-> c]
  ELSE IF Matching(c, sel) = {} THEN [err |-> ErrNotFound, coll |-> c]
  ELSE [err |-> "",
        coll |-> (c (-) SetToBag({FirstMatch(c, sel)})) (+) SetToBag({doc})]

\* an upsert that inserts whether or not a document matches
CollInsert(c, up, sel, doc) ==
  IF ~up THEN [err |-> ErrUnreachable, coll |-> c, info |-> "none"]
  ELSE [err |-> "", coll |-> c (+) SetToBag({doc}),
        info |-> IF Matching(c, sel) = {} THEN "upserted" ELSE "updated"]

\* an upsert that leaves a matching document as it is
CollInsertIfAbsent(c, up, sel, doc) ==
  IF ~up THEN [err |-> ErrUnreachable, coll |-> c, info |-> "none"]
  ELSE IF Matching(c, sel) = {}
    THEN [err |-> "", coll |-> c (+) SetToBag({doc}), info |-> "upserted"]
  ELSE [err |-> "", coll |-> c, info |-> "updated"]

\* coll.Upsert(sel, doc); info is the ChangeInfo the caller drops
CollUpsert(c, up, sel, doc) ==
  IF ~up THEN [err |-> ErrUnreachable, coll |-> c, info |-> "none"]
  ELSE IF Matching(c, sel) = {}
    THEN [err |-> "", coll |-> c (+) SetToBag({doc}), info |-> "upserted"]
  ELSE [err |-> "", info |-> "updated",
        coll |-> (c (-) SetToBag({FirstMatch(c, sel)})) (+) SetToBag({doc})]

\* coll.Count()
CollCount(c, up) ==
  IF ~up THEN [err |-> ErrUnreachable, n |-> 0]
  ELSE [err |-> "", n |-> BagCardinality(c)]

----------------------------------------------------------------------------
(* storage.MongoRepository *)

\* a selector of the repository id alone
KeyOfRepo(kudo) == [repoId |-> kudo.RepoID]

\* the selector of Delete, Update and Create
KeyOf(kudo) == [repoId |-> kudo.RepoID, userId |-> kudo.UserID]

\* var kudos []*core.Kudo after All: nil unless a document was appended
KudosOf(docs) ==
  IF docs = EmptyBag THEN [nil |-> TRUE, items |-> EmptyBag]
  ELSE [nil |-> FALSE,
        items |-> BagOfAll(FromBson, docs)]

MongoFind(c, up, repoID) ==
  LET kudo == ZeroKudo
      q == QueryOne(c, up, [repoId |-> repoID, userId |-> kudo.UserID])
  IN  IF q.err # "" THEN [kudo |-> ZeroKudo, isNil |-> TRUE, err |-> q.err]
      ELSE [kudo |-> FromBson(q.doc), isNil |-> FALSE, err |-> ""]

MongoFindAll(c, up, selector) ==
  LET q == QueryAll(c, up, selector)
  IN  IF q.err # "" THEN [kudos |-> KudosOf(EmptyBag), err |-> q.err]
      ELSE [kudos |-> KudosOf(q.docs), err |-> ""]

MongoDelete(c, up, kudo) ==
  LET q == CollRemove(c, up, KeyOf(kudo))
  IN  [err |-> q.err, coll |-> q.coll]

\* Update by the call Create makes
MongoUpdateUpsert(c, up, kudo) ==
  LET q == CollUpsert(c, up, KeyOf(kudo), ToBson(kudo))
  IN  [err |-> q.err, coll |-> q.coll]

MongoUpdate(c, up, kudo) ==
  LET q == CollUpdate(c, up, KeyOf(kudo), ToBson(kudo))
  IN  [err |-> q.err, coll |-> q.coll]

\* Create that goes on with the batch after an upsert failed and returns the
\* first error
RECURSIVE MongoCreateKeepGoing(_, _, _)
MongoCreateKeepGoing(c, ups, kudos) ==
  IF kudos = <<>> THEN [err |-> "", coll |-> c, infos |-> <<>>]
  ELSE LET kudo == Head(kudos)
           q == CollUpsert(c, Head(ups), KeyOf(kudo), ToBson(kudo))
           rest == MongoCreateKeepGoing(q.coll, Tail(ups), Tail(kudos))
       IN  IF q.err # "" THEN [rest EXCEPT !.err = q.err]
           ELSE [rest EXCEPT !.infos = <<q.info>> \o @]

\* ups[i]: the server is reachable at the i-th upsert of the batch.
\* infos: the ChangeInfo of each upsert made, for the properties only.
RECURSIVE MongoCreate(_, _, _)
MongoCreate(c, ups, kudos) ==
  IF kudos = <<>> THEN [err |-> "", coll |-> c, infos |-> <<>>]
  ELSE LET kudo == Head(kudos)
           q == CollUpsert(c, Head(ups), KeyOf(kudo), ToBson(kudo))
       IN  IF q.err # "" THEN [err |-> q.err, coll |-> q.coll, infos |-> <<>>]
           ELSE LET rest == MongoCreate(q.coll, Tail(ups), Tail(kudos))
                IN  [rest EXCEPT !.infos = <<q.info>> \o @]

MongoCount(c, up) == CollCount(c, up)

----------------------------------------------------------------------------
(* kudo.Service *)

\* the zero value of kudo.GitHubRepo
ZeroGitHubRepo ==
  [RepoID |-> I64Zero, RepoURL |-> "", RepoName |-> "", Language |-> "",
   Description |-> "", Notes |-> ""]

NewService(userId) == [userId |-> userId]

githubRepoToKudo(s, githubRepo) ==
  [UserID      |-> s.userId,
   RepoID      |-> Itoa(IntOf(githubRepo.RepoID)),
   RepoName    |-> githubRepo.RepoName,
   RepoURL     |-> githubRepo.RepoURL,
   Language    |-> githubRepo.Language,
   Description |-> githubRepo.Description,
   Notes       |-> githubRepo.Notes]

\* GetKudos without the selector of the owner
GetKudosOfAll(s, c, up) == MongoFindAll(c, up, EmptyMap)

GetKudos(s, c, up) == MongoFindAll(c, up, [userId |-> s.userId])

CreateKudoFor(s, c, up, githubRepo) ==
  LET kudo == githubRepoToKudo(s, githubRepo)
      r == MongoCreate(c, <<up>>, <<kudo>>)
  IN  [kudo |-> kudo, isNil |-> r.err # "", err |-> r.err, coll |-> r.coll,
       infos |-> r.infos]

UpdateKudoWith(s, c, up, githubRepo) ==
  LET kudo == githubRepoToKudo(s, githubRepo)
      r == MongoCreate(c, <<up>>, <<kudo>>)
  IN  [kudo |-> kudo, isNil |-> r.err # "", err |-> r.err, coll |-> r.coll,
       infos |-> r.infos]

RemoveKudo(s, c, up, githubRepo) ==
  LET kudo == githubRepoToKudo(s, githubRepo)
      r == MongoDelete(c, up, kudo)
  IN  [kudo |-> kudo, isNil |-> r.err # "", err |-> r.err, coll |-> r.coll]

----------------------------------------------------------------------------
(* net/http: the exchange a handler chain works on.                        *)
(* st.r the request, st.ctx the request context, st.w the ResponseWriter,  *)
(* st.coll the collection, st.up whether the database is reachable,        *)
(* st.ev the calls made so far, st.panic the panic that ended the handler. *)

NewExchange(r, c, up) ==
  [r     |-> r,
   ctx   |-> [has |-> FALSE, userId |-> ""],
   gh    |-> ZeroGitHubRepo,
   w     |-> [status |-> 0, header |-> EmptyMap, body |-> [t |-> "none"]],
   coll  |-> c,
   up    |-> up,
   ev    |-> <<>>,
   panic |-> "",
   next  |-> TRUE]

\* w.WriteHeader(code): the first status written stands
WriteHeader(w, code) == IF w.status # 0 THEN w ELSE [w EXCEPT !.status = code]

\* http.DetectContentType of the first bytes written: every body the server
\* writes (an error message, JSON text) is sniffed as plain text
DetectContentType(b) == "text/plain; charset=utf-8"

\* w.Write(b) and json.NewEncoder(w).Encode(v): write the body; the first
\* write sends the header, with the sniffed Content-Type when none is set
Write(w, b) ==
  [w EXCEPT !.status = IF @ = 0 THEN 200 ELSE @, !.body = b,
            !.header = IF "Content-Type" \in DOMAIN @ THEN @
                       ELSE ("Content-Type" :> DetectContentType(b)) @@ @]

\* a run-time panic: net/http recovers it and closes the connection
Panic(st, why) == [st EXCEPT !.panic = why]

Called(st, name) == [st EXCEPT !.ev = Append(@, name)]

----------------------------------------------------------------------------
(* pkg/http/middlewares.go *)

\* the tokens the identity provider has issued and the sub claim of each
Issued == (<<"a">> :> "u1") @@ (<<"b">> :> "u2")

\* verifier.VerifyIdToken(token) of okta-jwt-verifier-golang
VerifyIdToken(token) ==
  IF token \in DOMAIN Issued
    THEN [err |-> "", sub |-> Issued[token]]
  ELSE [err |-> "token is not valid", sub |-> ""]

\* accessToken: r.Header["Authorization"], the values of the header
validateAccessToken(accessToken) ==
  IF accessToken = <<>>
    THEN [panic |-> "index out of range [0]", err |-> "", sub |-> ""]
  ELSE LET parts == Split(accessToken[1], " ")
       IN  IF Len(parts) < 2
             THEN [panic |-> "index out of range [1]", err |-> "", sub |-> ""]
           ELSE LET v == VerifyIdToken(parts[2])
                IN  [panic |-> "", err |-> v.err, sub |-> v.sub]

\* Each middleware is what it does before it calls h.ServeHTTP, none does
\* anything after.  st.next tells whether the call of h is made, so a
\* middleware runs only when the one around it has called it.
\* OktaAuth that drops the error of the verification
AuthResultUnchecked(st, v) ==
  IF v.panic # "" THEN [Panic(st, v.panic) EXCEPT !.next = FALSE]
  ELSE [st EXCEPT !.ctx = [has |-> TRUE, userId |-> v.sub]]

AuthResult(st, v) ==
  IF v.panic # "" THEN [Panic(st, v.panic) EXCEPT !.next = FALSE]
  ELSE IF v.err # ""
    THEN [st EXCEPT !.w = Write(WriteHeader(@, 403), [t |-> "text", text |-> v.err]),
                    !.next = FALSE]
  ELSE [st EXCEPT !.ctx = [has |-> TRUE, userId |-> v.sub]]

OktaAuth(st) ==
  IF ~st.next THEN st
  ELSE AuthResult(Called(st, "OktaAuth"), validateAccessToken(st.r.Authorization))

JSONApi(st) ==
  IF ~st.next THEN st
  ELSE [Called(st, "JSONApi") EXCEPT
          !.w.header = ("Content-Type" :> "application/json") @@ @]

AccsessLog(st) == IF ~st.next THEN st ELSE Called(st, "AccsessLog")

\* rs/cors on a request that is not a preflight: the handler is called
Cors(st) == IF ~st.next THEN st ELSE Called(st, "Cors")

\* h = JSONApi(h); h = OktaAuth(h); h = Cors(h); return AccsessLog(h):
\* the last one wrapped runs first
UseMiddlewares(st) == JSONApi(OktaAuth(Cors(AccsessLog(st))))

----------------------------------------------------------------------------
(* pkg/http/handlers.go *)

\* json.Unmarshal(payload, &githubRepo), its error dropped: a payload that
\* is no object leaves the zero value, an id that is no number leaves id 0
Unmarshal(payload) ==
  IF payload.t # "object" THEN ZeroGitHubRepo
  ELSE [RepoID      |-> IF payload.id.t = "number" THEN payload.id.v ELSE I64Zero,
        RepoURL     |-> payload.html_url,
        RepoName    |-> payload.full_name,
        Language    |-> payload.language,
        Description |-> payload.description,
        Notes       |-> payload.notes]

\* json.NewEncoder(w).Encode(kudos): a nil slice is null
EncodeKudos(kudos) ==
  IF kudos.nil THEN [t |-> "null"]
  ELSE [t |-> "array", items |-> BagOfAll(ToJSON, kudos.items)]

EncodeKudo(kudo) == [t |-> "object", kudo |-> ToJSON(kudo)]

\* r.Context().Value("userId").(string) panics when the value is not set
NoUser == "interface conversion: interface {} is nil, not string"

\* the handlers from the result g of the service's method on
IndexReply(st, g) ==
  IF g.err # "" THEN [st EXCEPT !.ev = Append(@, g.err), !.w = WriteHeader(@, 500)]
  ELSE [st EXCEPT !.ev = Append(@, "found"),
                  !.w = Write(WriteHeader(@, 200), EncodeKudos(g.kudos))]

Index(st) ==
  IF ~st.ctx.has THEN Panic(Called(st, "Index"), NoUser)
  ELSE IndexReply(Called(Called(st, "Index"), "repo.FindAll"),
                  GetKudos(NewService(st.ctx.userId), st.coll, st.up))

CreateReply(st, githubRepo, g) ==
  IF g.err # ""
    THEN [st EXCEPT !.gh = githubRepo, !.coll = g.coll, !.ev = Append(@, g.err),
                    !.w = WriteHeader(@, 500)]
  ELSE [st EXCEPT !.gh = githubRepo, !.coll = g.coll, !.ev = Append(@, g.infos[1]),
                  !.w = Write(WriteHeader(@, 201), EncodeKudo(g.kudo))]

CreateWith(st, githubRepo) ==
  CreateReply(Called(Called(st, "Create"), "repo.Create"), githubRepo,
              CreateKudoFor(NewService(st.ctx.userId), st.coll, st.up, githubRepo))

\* Create that answers 400 to a body that is no JSON
CreateChecked(st) ==
  IF ~st.ctx.has THEN Panic(Called(st, "Create"), NoUser)
  ELSE IF st.r.body.t # "object"
    THEN [Called(st, "Create") EXCEPT !.w = WriteHeader(@, 400)]
  ELSE CreateWith(st, Unmarshal(st.r.body))

Create(st) ==
  IF ~st.ctx.has THEN Panic(Called(st, "Create"), NoUser)
  ELSE CreateWith(st, Unmarshal(st.r.body))

\* the reply of Delete that drops the error of RemoveKudo
DeleteReplyUnchecked(st, githubRepo, g) ==
  [st EXCEPT !.gh = githubRepo, !.coll = g.coll,
             !.ev = Append(@, IF g.err # "" THEN g.err ELSE "removed"),
             !.w = WriteHeader(@, 200)]

DeleteReply(st, githubRepo, g) ==
  IF g.err # ""
    THEN [st EXCEPT !.gh = githubRepo, !.coll = g.coll, !.ev = Append(@, g.err),
                    !.w = WriteHeader(@, 500)]
  ELSE [st EXCEPT !.gh = githubRepo, !.coll = g.coll, !.ev = Append(@, "removed"),
                  !.w = WriteHeader(@, 200)]

DeleteWith(st, githubRepo) ==
  DeleteReply(Called(Called(st, "Delete"), "repo.Delete"), githubRepo,
              RemoveKudo(NewService(st.ctx.userId), st.coll, st.up, githubRepo))

\* repoID, _ := strconv.Atoi(params.ByName("id")); RepoID: int64(repoID)
Delete(st) ==
  IF ~st.ctx.has THEN Panic(Called(st, "Delete"), NoUser)
  ELSE DeleteWith(st, [ZeroGitHubRepo EXCEPT !.RepoID = Atoi(st.r.id).val])

UpdateReply(st, githubRepo, g) ==
  IF g.err # ""
    THEN [st EXCEPT !.gh = githubRepo, !.coll = g.coll, !.ev = Append(@, g.err),
                    !.w = WriteHeader(@, 500)]
  ELSE [st EXCEPT !.gh = githubRepo, !.coll = g.coll, !.ev = Append(@, g.infos[1]),
                  !.w = Write(WriteHeader(@, 200), EncodeKudo(g.kudo))]

UpdateWith(st, githubRepo) ==
  UpdateReply(Called(Called(st, "Update"), "repo.Create"), githubRepo,
              UpdateKudoWith(NewService(st.ctx.userId), st.coll, st.up, githubRepo))

Update(st) ==
  IF ~st.ctx.has THEN Panic(Called(st, "Update"), NoUser)
  ELSE UpdateWith(st, Unmarshal(st.r.body))

\* the routes of httprouter registered by New
Router(st) ==
  CASE st.r.method = "GET"    -> Index(st)
    [] st.r.method = "POST"   -> Create(st)
    [] st.r.method = "DELETE" -> Delete(st)
    [] st.r.method = "PUT"    -> Update(st)

\* service.Router.ServeHTTP(w, r)
Routed(st) == IF st.next THEN Router(st) ELSE st

ServeHTTP(r, c, up) == Routed(UseMiddlewares(NewExchange(r, c, up)))

----------------------------------------------------------------------------
(* The requests the clients send *)

Bearer == <<"B", "e", "a", "r", "e", "r">>
Basic == <<"B", "a", "s", "i", "c">>

\* r.Header["Authorization"]: no header, one word, an issued token behind
\* "Bearer" and behind another scheme, a token never issued
AuthorizationHeaders ==
  { <<>>,
    <<Bearer>>,
    <<Bearer \o <<" ", "a">>>>,
    <<Bearer \o <<" ", "b">>>>,
    <<Basic \o <<" ", "b">>>>,
    <<Bearer \o <<" ", "x">>>> }

\* repository ids: 42 and 2^32 + 42
SmallID == <<0, 0, 0, 42>>
WideID == <<0, 1, 0, 42>>

Described(id, n) ==
  [t |-> "object", id |-> id,
   full_name   |-> IF n = 1 THEN "foo/bar" ELSE "foo/baz",
   html_url    |-> IF n = 1 THEN "https://x" ELSE "https://y",
   language    |-> IF n = 1 THEN "Go" ELSE "JavaScript",
   description |-> IF n = 1 THEN "d" ELSE "e",
   notes       |-> IF n = 1 THEN "" ELSE "read me"]

\* request bodies: repositories as GitHub describes them, a kudo as the API
\* returned it (its id a string), and a body that is no JSON
Payloads ==
  { Described([t |-> "number", v |-> SmallID], 1),
    Described([t |-> "number", v |-> SmallID], 2),
    Described([t |-> "number", v |-> WideID], 1),
    Described([t |-> "string", v |-> FormatInt(SmallID)], 2),
    [t |-> "garbage"] }

NoPayload == [t |-> "none"]

\* the :id of the path
PathIDs == {FormatInt(SmallID), FormatInt(WideID), <<"a">>}

NoResp ==
  [r     |-> [method |-> "none", Authorization |-> <<>>, body |-> NoPayload,
              id |-> <<>>],
   ctx   |-> [has |-> FALSE, userId |-> ""],
   gh    |-> ZeroGitHubRepo,
   w     |-> [status |-> 0, header |-> EmptyMap, body |-> [t |-> "none"]],
   up    |-> TRUE,
   ev    |-> <<>>,
   panic |-> "",
   before |-> EmptyBag]

NoRet == [op |-> "none"]

----------------------------------------------------------------------------
(* The server: one action per route.  A handler makes one call of the      *)
(* repository and the database applies it at once, so a request is one     *)
(* step; resp holds the exchange until the response has left.              *)

\* a kudo of an owner, with one of two descriptions
KudoOf(owner, repoID, n) ==
  [UserID |-> owner, RepoID |-> repoID,
   RepoName    |-> IF n = 1 THEN "foo/bar" ELSE "foo/baz",
   RepoURL     |-> IF n = 1 THEN "https://x" ELSE "https://y",
   Language    |-> IF n = 1 THEN "Go" ELSE "JavaScript",
   Description |-> IF n = 1 THEN "d" ELSE "e",
   Notes       |-> IF n = 1 THEN "" ELSE "read me"]

\* most Repository calls the database works on at a time
MaxInFlight == 2

\* most calls of the API the Home component waits for at a time
MaxRequests == 2

\* a session that works on no call
Idle == [op |-> "none"]

\* the kudos of the concurrent requests: two of one key, one of another
ConcKudos ==
  { KudoOf("u1", FormatInt(SmallID), 1), KudoOf("u1", FormatInt(SmallID), 2),
    KudoOf("u2", FormatInt(SmallID), 1) }

ConcKeys == {KeyOf(k) : k \in ConcKudos}

\* the browser when the app is opened: the landing page, nobody signed in.
\* asked: the argument of the last auth.login, "" when it was not called
NewBrowser == [route |-> "/", signedIn |-> FALSE, asked |-> ""]

\* the Login component before it is mounted
NoLogin ==
  [mounted |-> FALSE, state |-> [authenticated |-> "null"], checking |-> FALSE,
   view |-> "none"]

\* no click on a kudo button since the last render
NoClick == [on |-> FALSE]

\* the Home component before it is mounted.  state: this.state; requests:
\* the calls of the API the component waits for; click: the last click on a
\* kudo button and what it did, for the properties; searches: the searches
\* of GitHub the component waits for, in the order made; search: the last
\* key event or answered search and the state before it, for the properties
\* most searches of GitHub the Home component waits for at a time
MaxSearches == 2

\* no key pressed in the search input and no search answered since the
\* last render
NoSearch == [kind |-> "none"]

NoHome ==
  [mounted |-> FALSE, state |-> [value |-> 0, repos |-> <<>>, kudos |-> <<>>],
   requests |-> <<>>, click |-> NoClick, searches |-> <<>>, search |-> NoSearch]

Init ==
  /\ intSize \in {32, 64}
  /\ coll = EmptyBag
  /\ resp = NoResp
  /\ ret = NoRet
  /\ inflight = [i \in 1..MaxInFlight |-> Idle]
  /\ observed = [key \in ConcKeys |-> Idle]
  /\ browser = NewBrowser
  /\ login = NoLogin
  /\ home = NoHome

\* what is kept of the exchange st for the properties, with the collection
\* as it was when the request came
Exchanged(st) ==
  [r |-> st.r, ctx |-> st.ctx, gh |-> st.gh, w |-> st.w, up |-> st.up,
   ev |-> st.ev, panic |-> st.panic, before |-> coll]

GetKudosReq ==
  \E a \in AuthorizationHeaders, up \in BOOLEAN :
    LET st == ServeHTTP([method |-> "GET", Authorization |-> a,
                         body |-> NoPayload, id |-> <<>>], coll, up)
    IN  /\ resp = NoResp
        /\ coll' = st.coll
        /\ resp' = Exchanged(st)
        /\ UNCHANGED <<inflight, observed, browser, login, home, intSize, ret>>

PostKudosReq ==
  \E a \in AuthorizationHeaders, up \in BOOLEAN, b \in Payloads :
    LET st == ServeHTTP([method |-> "POST", Authorization |-> a,
                         body |-> b, id |-> <<>>], coll, up)
    IN  /\ resp = NoResp
        /\ BagCardinality(st.coll) <= MaxDocs
        /\ coll' = st.coll
        /\ resp' = Exchanged(st)
        /\ UNCHANGED <<inflight, observed, browser, login, home, intSize, ret>>

DeleteKudosReq ==
  \E a \in AuthorizationHeaders, up \in BOOLEAN, id \in PathIDs :
    LET st == ServeHTTP([method |-> "DELETE", Authorization |-> a,
                         body |-> NoPayload, id |-> id], coll, up)
    IN  /\ resp = NoResp
        /\ coll' = st.coll
        /\ resp' = Exchanged(st)
        /\ UNCHANGED <<inflight, observed, browser, login, home, intSize, ret>>

PutKudosReq ==
  \E a \in AuthorizationHeaders, up \in BOOLEAN, b \in Payloads, id \in PathIDs :
    LET st == ServeHTTP([method |-> "PUT", Authorization |-> a,
                         body |-> b, id |-> id], coll, up)
    IN  /\ resp = NoResp
        /\ BagCardinality(st.coll) <= MaxDocs
        /\ coll' = st.coll
        /\ resp' = Exchanged(st)
        /\ UNCHANGED <<inflight, observed, browser, login, home, intSize, ret>>

\* the response is sent (or, after a panic, the connection closed)
Respond ==
  /\ resp # NoResp
  /\ resp' = NoResp
  /\ UNCHANGED <<inflight, observed, browser, login, home, intSize, coll, ret>>

Next ==
  GetKudosReq \/ PostKudosReq \/ DeleteKudosReq \/ PutKudosReq \/ Respond

Spec == Init /\ [][Next]_vars

----------------------------------------------------------------------------
(* The Repository called directly, as core.Repository allows: one action   *)
(* per method; ret holds the call, its result and the collection as it was *)
(* before (for the properties) until the caller has the result.            *)

\* owners of the kudos passed: the zero value and two users
RepoOwners == {"", "u1", "u2"}

RepoKudos ==
  {KudoOf(o, FormatInt(SmallID), n) : o \in RepoOwners, n \in {1, 2}}
    \cup {KudoOf("u1", <<"7">>, 1)}

RepoKeys == {<<k.UserID, k.RepoID>> : k \in RepoKudos}

Batches == UNION {[1..n -> RepoKudos] : n \in 0..MaxBatch}

Selectors ==
  {[userId |-> o] : o \in RepoOwners}
    \cup {[repoId |-> FormatInt(SmallID)], EmptyMap}

CallFind ==
  \E key \in RepoKeys, up \in BOOLEAN :
    /\ ret = NoRet
    /\ ret' = [op |-> "Find", before |-> coll, owner |-> key[1], repoID |-> key[2], up |-> up,
               res |-> MongoFind(coll, up, key[2])]
    /\ UNCHANGED <<inflight, observed, browser, login, home, intSize, coll, resp>>

CallFindAll ==
  \E selector \in Selectors, up \in BOOLEAN :
    /\ ret = NoRet
    /\ ret' = [op |-> "FindAll", before |-> coll, selector |-> selector, up |-> up,
               res |-> MongoFindAll(coll, up, selector)]
    /\ UNCHANGED <<inflight, observed, browser, login, home, intSize, coll, resp>>

CallDelete ==
  \E kudo \in RepoKudos, up \in BOOLEAN :
    LET r == MongoDelete(coll, up, kudo)
    IN  /\ ret = NoRet
        /\ coll' = r.coll
        /\ ret' = [op |-> "Delete", before |-> coll, kudo |-> kudo, up |-> up, err |-> r.err]
        /\ UNCHANGED <<inflight, observed, browser, login, home, intSize, resp>>

CallUpdate ==
  \E kudo \in RepoKudos, up \in BOOLEAN :
    LET r == MongoUpdate(coll, up, kudo)
    IN  /\ ret = NoRet
        /\ coll' = r.coll
        /\ ret' = [op |-> "Update", before |-> coll, kudo |-> kudo, up |-> up, err |-> r.err]
        /\ UNCHANGED <<inflight, observed, browser, login, home, intSize, resp>>

CallCreate ==
  \E kudos \in Batches :
    \E ups \in [1..Len(kudos) -> BOOLEAN] :
      LET r == MongoCreate(coll, ups, kudos)
      IN  /\ ret = NoRet
          /\ BagCardinality(r.coll) <= MaxDocs
          /\ coll' = r.coll
          /\ ret' = [op |-> "Create", before |-> coll, kudos |-> kudos, ups |-> ups,
                     err |-> r.err, infos |-> r.infos]
          /\ UNCHANGED <<inflight, observed, browser, login, home, intSize, resp>>

CallCount ==
  \E up \in BOOLEAN :
    /\ ret = NoRet
    /\ ret' = [op |-> "Count", before |-> coll, up |-> up, res |-> MongoCount(coll, up)]
    /\ UNCHANGED <<inflight, observed, browser, login, home, intSize, coll, resp>>

Return ==
  /\ ret # NoRet
  /\ ret' = NoRet
  /\ UNCHANGED <<inflight, observed, browser, login, home, intSize, coll, resp>>

NextRepo ==
  CallFind \/ CallFindAll \/ CallDelete \/ CallUpdate \/ CallCreate
    \/ CallCount \/ Return

SpecRepo == Init /\ [][NextRepo]_vars

----------------------------------------------------------------------------
(* Properties.  An exchange is authenticated when its handler got a user  *)
(* id; the store is called when a Repository method appears in resp.ev.   *)

RepoCalls == {"repo.FindAll", "repo.Create", "repo.Delete"}

StoreCalled(e) == \E i \in 1..Len(e.ev) : e.ev[i] \in RepoCalls

\* the kudos of a JSON body
ItemsOf(body) == IF body.t = "array" THEN BagToSet(body.items) ELSE {}

\* the documents of c under the key (owner, repoID)
DocsAt(c, owner, repoID) ==
  {d \in BagToSet(c) : d.userId = owner /\ d.repoId = repoID}

\* the number of documents of c under the key (owner, repoID)
CountAt(c, owner, repoID) ==
  BagCardinality([d \in DocsAt(c, owner, repoID) |-> c[d]])

\* the Authorization header carries a token the identity provider issued,
\* as second word
PresentsIssuedToken(r) ==
  /\ r.Authorization # <<>>
  /\ \E scheme \in {Bearer, Basic}, tok \in DOMAIN Issued :
       r.Authorization[1] = scheme \o <<" ">> \o tok

\* the Authorization header has the form "Bearer <token>"
WellFormedBearer(r) ==
  /\ r.Authorization # <<>>
  /\ Len(r.Authorization[1]) > Len(Bearer) + 1
  /\ SubSeq(r.Authorization[1], 1, Len(Bearer) + 1) = Bearer \o <<" ">>

\* C1: the kudos GET /kudos returns to a user (GetKudos of the service bound
\* to that user) all have that user as owner, whatever the other users have
\* stored.
C1_ReadIsolation ==
  (resp.r.method = "GET" /\ resp.w.status = 200)
    => \A k \in ItemsOf(resp.w.body) : k.user_id = resp.ctx.userId

\* a user with kudos lists them while another user has kudos too
C1_Witness ==
  /\ resp.r.method = "GET" /\ resp.w.status = 200
  /\ resp.ctx.userId = "u1"
  /\ ItemsOf(resp.w.body) # {}
  /\ \E d \in BagToSet(coll) : d.userId = "u2"

C3_MalformedRejected ==
  (resp # NoResp /\ ~WellFormedBearer(resp.r))
    => (resp.w.status = 403 /\ resp.panic = "")

\* C4: DELETE /kudos/:id of a key the owner has no kudo under is answered
\* 200 and leaves the collection as it was.
C4_DeleteMissingSucceeds ==
  ( /\ resp.r.method = "DELETE"
    /\ resp.ctx.has
    /\ resp.up
    /\ DocsAt(resp.before, resp.ctx.userId, FormatInt(resp.gh.RepoID)) = {} )
    => (resp.w.status = 200 /\ coll = resp.before)

\* C5: the collection holds at most one document for each pair of owner and
\* repository id.
C5_UniqueKey ==
  \A d \in BagToSet(coll) : CountAt(coll, d.userId, d.repoId) = 1

\* Create was called for a key that had a document with other fields
C5_Witness ==
  /\ ret.op = "Create"
  /\ ret.err = ""
  /\ \E i \in 1..Len(ret.kudos) :
       \E d \in DocsAt(ret.before, ret.kudos[i].UserID, ret.kudos[i].RepoID) :
         d # ToBson(ret.kudos[i])

\* the descriptive fields of a JSON object that describes a repository
FieldsOfPayload(b) ==
  <<b.full_name, b.html_url, b.language, b.description, b.notes>>

\* the descriptive fields of a stored document
FieldsOfDoc(d) ==
  <<d.repoName, d.repoUrl, d.language, d.description, d.notes>>

\* C6: after POST /kudos (CreateKudoFor) has succeeded there is exactly one
\* document under the key of the kudo returned, also when the owner had a
\* kudo of that repository before, and its descriptive fields are those of
\* this request.
C6_UpsertLastWins ==
  ( /\ resp.r.method = "POST"
    /\ resp.w.status = 201
    /\ resp.r.body.t = "object" )
    => /\ resp.w.body.kudo.user_id = resp.ctx.userId
       /\ CountAt(coll, resp.ctx.userId, resp.w.body.kudo.id) = 1
       /\ \A d \in DocsAt(coll, resp.ctx.userId, resp.w.body.kudo.id) :
            FieldsOfDoc(d) = FieldsOfPayload(resp.r.body)

\* the second POST of a repository, with other descriptive fields
C6_Witness ==
  /\ resp.r.method = "POST"
  /\ resp.w.status = 201
  /\ resp.r.body.t = "object"
  /\ \E d \in DocsAt(resp.before, resp.ctx.userId, resp.w.body.kudo.id) :
       FieldsOfDoc(d) # FieldsOfPayload(resp.r.body)

\* C7: an exchange leaves the documents of every owner other than the user
\* its service is bound to as they were, on every route and for every body.
C7_WriteIsolation ==
  resp # NoResp =>
    \A d \in BagToSet(coll) \cup BagToSet(resp.before) :
      d.userId # resp.ctx.userId => CopiesIn(d, coll) = CopiesIn(d, resp.before)

\* a user changed the collection while another user had kudos, one of them
\* of the same repository
C7_Witness ==
  /\ resp.ctx.has
  /\ coll # resp.before
  /\ \E d \in BagToSet(resp.before) :
       /\ d.userId # resp.ctx.userId
       /\ d.repoId = FormatInt(resp.gh.RepoID)

\* what Create with the one record of the Update would have answered
CreateInstead == MongoCreate(ret.before, <<ret.up>>, <<ret.kudo>>)

\* C8 as claimed: Update answers what Create with that one record answers
\* and leaves the collection Create leaves, also when the key has no
\* document.
C8_UpdateIsUpsert ==
  ret.op = "Update" =>
    (ret.err = CreateInstead.err /\ coll = CreateInstead.coll)

\* C8 as amended: Update answers and leaves what Create with that one record
\* does when the key has a document or the database is unreachable; when the
\* key has no document it answers "not found" and inserts nothing.
C8_UpdateReplacesOrNotFound ==
  ret.op = "Update" =>
    IF ~ret.up \/ DocsAt(ret.before, ret.kudo.UserID, ret.kudo.RepoID) # {}
      THEN ret.err = CreateInstead.err /\ coll = CreateInstead.coll
    ELSE ret.err = ErrNotFound /\ coll = ret.before

\* an Update replaced a document by one with other fields
C8_Witness ==
  /\ ret.op = "Update"
  /\ ret.err = ""
  /\ coll # ret.before

\* C9: Find of an owner's repository answers the kudo stored under that owner
\* and repository id when there is one, and "not found" when there is none.
C9_FindByOwnerAndRepo ==
  (ret.op = "Find" /\ ret.up) =>
    IF DocsAt(ret.before, ret.owner, ret.repoID) # {}
      THEN /\ ret.res.err = ""
           /\ ToBson(ret.res.kudo) \in DocsAt(ret.before, ret.owner, ret.repoID)
    ELSE ret.res.err = ErrNotFound

\* C10: after POST /kudos of a repository with a numeric id has succeeded,
\* the kudos of that user (GetKudos) include one whose id is the decimal
\* form of that number and whose owner is the user.
C10_AddThenList ==
  ( /\ resp.r.method = "POST"
    /\ resp.w.status = 201
    /\ resp.r.body.t = "object"
    /\ resp.r.body.id.t = "number" )
    => \E k \in BagToSet(GetKudos(NewService(resp.ctx.userId), coll, TRUE).kudos.items) :
         /\ k.RepoID = FormatInt(resp.r.body.id.v)
         /\ k.UserID = resp.ctx.userId

----------------------------------------------------------------------------
(* The round trip of one bookmark over HTTP *)

\* the header "Authorization: Bearer <tok>"
BearerOf(tok) == <<Bearer \o <<" ">> \o tok>>

\* the request bodies that describe a repository with a numeric id
NumberedPayloads == {b \in Payloads : b.t = "object" /\ b.id.t = "number"}

\* the JSON object of the kudo the owner has of the repository b describes
KudoJSONOf(owner, b) ==
  [user_id |-> owner, id |-> FormatInt(b.id.v), full_name |-> b.full_name,
   html_url |-> b.html_url, language |-> b.language,
   description |-> b.description, notes |-> b.notes]

\* the documents of c that owner owns
OwnedBy(c, owner) == {d \in BagToSet(c) : d.userId = owner}

\* the last two exchanges of the trip: s3 the DELETE, s4 the GET after it
TripEnds(owner, s3, s4) ==
  /\ s3.w.status = 200
  /\ OwnedBy(s3.coll, owner) = {}
  /\ s4.w.status = 200
  /\ s4.w.body = [t |-> "array", items |-> EmptyBag]

\* the trip from the POST s1 on: s2 the GET after it
TripFrom(owner, a, b, s1, s2) ==
  /\ s1.w.status = 201
  /\ BagCardinality([d \in OwnedBy(s1.coll, owner) |-> s1.coll[d]]) = 1
  /\ s2.w.status = 200
  /\ s2.w.body = [t |-> "array", items |-> SetToBag({KudoJSONOf(owner, b)})]
  /\ TripEnds(owner,
              ServeHTTP([method |-> "DELETE", Authorization |-> a,
                         body |-> NoPayload, id |-> FormatInt(b.id.v)],
                        s1.coll, TRUE),
              ServeHTTP([method |-> "GET", Authorization |-> a,
                         body |-> NoPayload, id |-> <<>>],
                        ServeHTTP([method |-> "DELETE", Authorization |-> a,
                                   body |-> NoPayload, id |-> FormatInt(b.id.v)],
                                  s1.coll, TRUE).coll, TRUE))

RoundTrip(owner, a, b, s1) ==
  TripFrom(owner, a, b, s1,
           ServeHTTP([method |-> "GET", Authorization |-> a,
                      body |-> NoPayload, id |-> <<>>], s1.coll, TRUE))

\* C11: from a collection in which an owner has no kudo, that owner's POST
\* /kudos of a repository with id n is answered 201 and leaves one document
\* of the owner; the GET /kudos after it returns exactly that kudo; DELETE
\* /kudos/n after it is answered 200 and leaves none; the GET /kudos after
\* that is answered 200 with the empty array [] (not null).
C11_RoundTrip ==
  \A tok \in DOMAIN Issued, b \in NumberedPayloads :
    OwnedBy(coll, Issued[tok]) = {} =>
      RoundTrip(Issued[tok], BearerOf(tok), b,
                ServeHTTP([method |-> "POST", Authorization |-> BearerOf(tok),
                           body |-> b, id |-> <<>>], coll, TRUE))

----------------------------------------------------------------------------
(* The headers of the responses *)

\* C12: every response the server sends, the 403 of OktaAuth and the 500 of
\* a failed store call included, has the header Content-Type:
\* application/json.
C12_JSONContentType ==
  (resp # NoResp /\ resp.w.status # 0)
    => /\ "Content-Type" \in DOMAIN resp.w.header
       /\ resp.w.header["Content-Type"] = "application/json"

----------------------------------------------------------------------------
(* The coercion of the repository id *)

\* int64 ids: 0, 42, 2^31 - 1, 2^31, 2^32 + 42, 2^63 - 1, -1, -2^31,
\* -2^31 - 1, -2^63
CoercedIDs ==
  { I64Zero, SmallID, <<0, 0, HalfLimb - 1, TopLimb>>, <<0, 0, HalfLimb, 0>>,
    WideID, <<HalfLimb - 1, TopLimb, TopLimb, TopLimb>>,
    <<TopLimb, TopLimb, TopLimb, TopLimb>>, <<TopLimb, TopLimb, HalfLimb, 0>>,
    <<TopLimb, TopLimb, HalfLimb - 1, TopLimb>>, <<HalfLimb, 0, 0, 0>> }

\* the repo_id of the kudo made of a request body with the id x
BodyPathID(x) ==
  githubRepoToKudo(NewService("u1"), Unmarshal(Described([t |-> "number", v |-> x], 1))).RepoID

\* the repo_id of the kudo DELETE /kudos/<p> removes: the :id parsed as the
\* handler Delete parses it, mapped as RemoveKudo maps it
DeletePathID(p) ==
  githubRepoToKudo(NewService("u1"),
                   ServeHTTP([method |-> "DELETE", Authorization |-> BearerOf(<<"a">>),
                              body |-> NoPayload, id |-> p], EmptyBag, TRUE).gh).RepoID

\* C13: the repo_id made of a 64-bit id is its decimal form, on the body
\* path (POST, PUT) and on the path of DELETE /kudos/:id, so two different
\* ids never get the same repo_id; the kudo a POST answers carries the decimal
\* form of the id of its body.
C13_LosslessCoercion ==
  /\ \A x \in CoercedIDs :
       /\ BodyPathID(x) = FormatInt(x)
       /\ DeletePathID(FormatInt(x)) = FormatInt(x)
  /\ \A x, y \in CoercedIDs : x # y => BodyPathID(x) # BodyPathID(y)
  /\ ( /\ resp.r.method = "POST"
       /\ resp.w.status = 201
       /\ resp.r.body.t = "object"
       /\ resp.r.body.id.t = "number" )
       => resp.w.body.kudo.id = FormatInt(resp.r.body.id.v)

----------------------------------------------------------------------------
(* The batch of Create *)

\* the index of the first upsert of the batch that fails, Len(ups) + 1 when
\* none does
FirstFailing(ups) ==
  IF \A i \in 1..Len(ups) : ups[i] THEN Len(ups) + 1
  ELSE CHOOSE i \in 1..Len(ups) : ~ups[i] /\ \A j \in 1..(i - 1) : ups[j]

\* after is before with the records recs upserted one after the other: under
\* each key of recs there is one document, the last record of recs with that
\* key, and the documents under the other keys are as they were
Upserted(before, after, recs) ==
  /\ \A i \in 1..Len(recs) :
       /\ CountAt(after, recs[i].UserID, recs[i].RepoID) = 1
       /\ (\A j \in (i + 1)..Len(recs) : KeyOf(recs[j]) # KeyOf(recs[i]))
            => ToBson(recs[i]) \in BagToSet(after)
  /\ \A d \in BagToSet(before) \cup BagToSet(after) :
       (\A i \in 1..Len(recs) : ~Matches(d, KeyOf(recs[i])))
         => CopiesIn(d, after) = CopiesIn(d, before)

\* Create answers an error exactly when an upsert of the batch failed, and
\* then the records before the failing one, and no other, are upserted
CreateStopsAtFailure ==
  /\ (ret.err # "") <=> (\E i \in 1..Len(ret.ups) : ~ret.ups[i])
  /\ Len(ret.infos) = FirstFailing(ret.ups) - 1
  /\ Upserted(ret.before, coll, SubSeq(ret.kudos, 1, FirstFailing(ret.ups) - 1))

\* C14 as claimed: Create answers an error exactly when an upsert of the
\* batch failed; then the records before the failing one are upserted and
\* the failing one and the later ones are not; when it answers no error,
\* every record of the batch is a document of the collection.
C14_CreateBatch ==
  ret.op = "Create" =>
    /\ CreateStopsAtFailure
    /\ ret.err = "" =>
         \A i \in 1..Len(ret.kudos) : ToBson(ret.kudos[i]) \in BagToSet(coll)

\* C14 as amended: the same, but when Create answers no error the collection
\* holds under each key of the batch one document, the last record of the
\* batch with that key (an earlier record with the same key is replaced).
C14_CreateBatchLastOfKey ==
  ret.op = "Create" =>
    /\ CreateStopsAtFailure
    /\ ret.err = "" => Upserted(ret.before, coll, ret.kudos)

\* the second upsert of a batch failed after the first had changed the
\* collection
C14_Witness ==
  /\ ret.op = "Create"
  /\ ret.err # ""
  /\ Len(ret.kudos) = 2
  /\ Len(ret.infos) = 1
  /\ coll # ret.before

----------------------------------------------------------------------------
(* Concurrent requests.  net/http runs each request in its own goroutine   *)
(* and each Repository call on its own copy of the session, so the calls   *)
(* of several requests are at the database at once.  The database applies  *)
(* a remove, and an upsert that matches a document, in one step.  An       *)
(* upsert that matches no document inserts in a second step: only a unique *)
(* index on the selector's fields would make the database refuse the       *)
(* second of two such inserts, and NewMongoRepository creates no index.    *)

\* the inserts the database has still to make
PendingInserts == {i \in 1..MaxInFlight : inflight[i].op = "Create" /\ inflight[i].phase = "insert"}

Upserts == {i \in 1..MaxInFlight : inflight[i].op = "Create"}

\* a request calls repo.Create(kudo) (CreateKudoFor, UpdateKudoWith)
BeginCreate ==
  \E i \in 1..MaxInFlight, kudo \in ConcKudos :
    /\ inflight[i] = Idle
    /\ BagCardinality(coll) + Cardinality(Upserts) < MaxDocs
    /\ inflight' = [inflight EXCEPT ![i] = [op |-> "Create", kudo |-> kudo, phase |-> "sent"]]
    /\ UNCHANGED <<intSize, coll, resp, ret, observed, browser, login, home>>

\* a request calls repo.Delete(kudo) (RemoveKudo)
BeginDelete ==
  \E i \in 1..MaxInFlight, kudo \in ConcKudos :
    /\ inflight[i] = Idle
    /\ inflight' = [inflight EXCEPT ![i] = [op |-> "Delete", kudo |-> kudo, phase |-> "sent"]]
    /\ UNCHANGED <<intSize, coll, resp, ret, observed, browser, login, home>>

\* the database runs the query of an upsert: a matching document is replaced
\* at once, without one the insert is still to come
UpsertQuery ==
  \E i \in 1..MaxInFlight :
    /\ inflight[i].op = "Create"
    /\ inflight[i].phase = "sent"
    /\ IF Matching(coll, KeyOf(inflight[i].kudo)) # {}
         THEN /\ coll' = MongoCreate(coll, <<TRUE>>, <<inflight[i].kudo>>).coll
              /\ observed' = [observed EXCEPT ![KeyOf(inflight[i].kudo)] =
                                [op |-> "Create", kudo |-> inflight[i].kudo]]
              /\ inflight' = [inflight EXCEPT ![i] = Idle]
       ELSE /\ inflight' = [inflight EXCEPT ![i].phase = "insert"]
            /\ UNCHANGED <<coll, observed>>
    /\ UNCHANGED <<intSize, resp, ret, browser, login, home>>

\* the database inserts the document of an upsert whose query matched none
UpsertInsert ==
  \E i \in PendingInserts :
    /\ coll' = coll (+) SetToBag({ToBson(inflight[i].kudo)})
    /\ observed' = [observed EXCEPT ![KeyOf(inflight[i].kudo)] =
                      [op |-> "Create", kudo |-> inflight[i].kudo]]
    /\ inflight' = [inflight EXCEPT ![i] = Idle]
    /\ UNCHANGED <<intSize, resp, ret, browser, login, home>>

\* the database runs the remove of repo.Delete
Remove ==
  \E i \in 1..MaxInFlight :
    /\ inflight[i].op = "Delete"
    /\ coll' = MongoDelete(coll, TRUE, inflight[i].kudo).coll
    /\ observed' = [observed EXCEPT ![KeyOf(inflight[i].kudo)] =
                      [op |-> "Delete", kudo |-> inflight[i].kudo]]
    /\ inflight' = [inflight EXCEPT ![i] = Idle]
    /\ UNCHANGED <<intSize, resp, ret, browser, login, home>>

NextConc == BeginCreate \/ BeginDelete \/ UpsertQuery \/ UpsertInsert \/ Remove

SpecConc == Init /\ [][NextConc]_vars

\* C15: whatever the order in which the database works on the upserts and
\* removes of concurrent requests, each key has at most one document, and
\* what it has is the effect of the last write the database applied to it:
\* the kudo of that upsert, or no document after a remove.
C15_LastWriteWins ==
  \A key \in ConcKeys :
    /\ BagCardinality([d \in Matching(coll, key) |-> coll[d]]) <= 1
    /\ observed[key].op = "Create" => Matching(coll, key) = {ToBson(observed[key].kudo)}
    /\ observed[key].op = "Delete" => Matching(coll, key) = {}

----------------------------------------------------------------------------
(* Errors of the store *)

StoreErrors == {ErrNotFound, ErrUnreachable}

\* the Repository method the exchange called returned an error
StoreFailed(e) == e.ev # <<>> /\ e.ev[Len(e.ev)] \in StoreErrors

\* the number of calls of Repository methods in the exchange
StoreCalls(e) == Cardinality({i \in 1..Len(e.ev) : e.ev[i] \in RepoCalls})

\* the status of success of each route
SuccessStatus(method) == IF method = "POST" THEN 201 ELSE 200

\* C16: an authenticated request, on each of the four routes, calls one
\* Repository method once; when the call returns an error the answer is 500
\* without a body, and only when it returns none the answer is the status of
\* success of the route (200 for GET, PUT and DELETE, 201 for POST).
C16_StoreErrorIs500 ==
  (resp # NoResp /\ resp.ctx.has) =>
    /\ StoreCalls(resp) = 1
    /\ StoreFailed(resp) => (resp.w.status = 500 /\ resp.w.body = [t |-> "none"])
    /\ ~StoreFailed(resp) => resp.w.status = SuccessStatus(resp.r.method)
    /\ resp.w.status = SuccessStatus(resp.r.method) => ~StoreFailed(resp)

\* a DELETE met a store error while kudos were stored
C16_Witness ==
  /\ resp.r.method = "DELETE"
  /\ resp.ctx.has
  /\ StoreFailed(resp)
  /\ resp.w.status = 500
  /\ coll # EmptyBag

----------------------------------------------------------------------------
(* Request bodies that are no JSON *)

\* the kudo the user has of the zero value of GitHubRepo
ZeroKudoOf(userId) == [ZeroKudo EXCEPT !.UserID = userId, !.RepoID = <<"0">>]

\* C17: an authenticated POST /kudos or PUT /kudos/:id whose body is no JSON
\* is not rejected: the handler works on the zero value of GitHubRepo, so
\* (the database reachable) the user gets one kudo with repo_id "0" and empty
\* descriptive fields, and the answer is 201 for POST, 200 for PUT, with that
\* kudo.
C17_UnparsableBodyUpsertsZero ==
  ( /\ resp.r.method \in {"POST", "PUT"}
    /\ resp.ctx.has
    /\ resp.up
    /\ resp.r.body.t = "garbage" )
    => /\ resp.gh = ZeroGitHubRepo
       /\ resp.w.status = SuccessStatus(resp.r.method)
       /\ resp.w.body = EncodeKudo(ZeroKudoOf(resp.ctx.userId))
       /\ DocsAt(coll, resp.ctx.userId, <<"0">>) = {ToBson(ZeroKudoOf(resp.ctx.userId))}
       /\ CountAt(coll, resp.ctx.userId, <<"0">>) = 1

\* a POST without JSON added a kudo "0" to the kudos the user had
C17_Witness ==
  /\ resp.r.method = "POST"
  /\ resp.r.body.t = "garbage"
  /\ resp.w.status = 201
  /\ resp.before # EmptyBag
  /\ DocsAt(resp.before, resp.ctx.userId, <<"0">>) = {}
  /\ DocsAt(coll, resp.ctx.userId, <<"0">>) # {}

----------------------------------------------------------------------------
(* The web app: Main routes "/" to Login and "/home" to Home.              *)
(* The Login component (app/src/Login/index.js).  A JavaScript value that  *)
(* is null, true or false is the string "null", "true" or "false".         *)

\* the value await this.props.auth.isAuthenticated() gives
isAuthenticated == IF browser.signedIn THEN "true" ELSE "false"

\* render(): what Login shows in the state st
LoginRender(st) == "button"

\* the route "/" is shown: the constructor, the first render, and
\* componentDidMount, which starts checkAuthentication
LoginMount ==
  /\ browser.route = "/"
  /\ ~login.mounted
  /\ login' = [mounted |-> TRUE, state |-> [authenticated |-> "null"],
               checking |-> TRUE,
               view |-> LoginRender([authenticated |-> "null"])]
  /\ UNCHANGED <<intSize, coll, resp, ret, inflight, observed, browser, home>>

\* the state after this.setState(update) and the render it causes
LoginSetState(update) == [login EXCEPT !.state = update, !.view = LoginRender(update)]

\* checkAuthentication after its await
checkAuthentication ==
  /\ login.mounted
  /\ login.checking
  /\ login' = [(IF isAuthenticated # login.state.authenticated
                  THEN LoginSetState([authenticated |-> isAuthenticated])
                ELSE login) EXCEPT !.checking = FALSE]
  /\ UNCHANGED <<intSize, coll, resp, ret, inflight, observed, browser, home>>

\* login(e), the onClick of the button: this.props.auth.login('/home')
OnClickLogin ==
  /\ login.mounted
  /\ login.view = "button"
  /\ browser' = [browser EXCEPT !.asked = "/home"]
  /\ UNCHANGED <<intSize, coll, resp, ret, inflight, observed, login, home>>

\* the auth provider has signed the user in (ImplicitCallback) and sends the
\* browser to the path auth.login was given
SignedIn ==
  /\ browser.asked # ""
  /\ browser' = [route |-> browser.asked, signedIn |-> TRUE, asked |-> ""]
  /\ login' = NoLogin
  /\ UNCHANGED <<intSize, coll, resp, ret, inflight, observed, home>>

\* the user opens "/" again while "/home" is shown (and no call of the API
\* is under way)
OpenRoot ==
  /\ browser.route = "/home"
  /\ home.requests = <<>>
  /\ home.searches = <<>>
  /\ browser' = [browser EXCEPT !.route = "/"]
  /\ home' = NoHome
  /\ UNCHANGED <<intSize, coll, resp, ret, inflight, observed, login>>

\* logout of SearchBar: this.props.auth.logout('/')
logout ==
  /\ browser.route = "/home"
  /\ home.requests = <<>>
  /\ home.searches = <<>>
  /\ browser' = NewBrowser
  /\ home' = NoHome
  /\ UNCHANGED <<intSize, coll, resp, ret, inflight, observed, login>>

----------------------------------------------------------------------------
(* The Home component (app/src/Home/index.js), the APIClient and the       *)
(* githubClient.  A JavaScript object is the record of its properties, a   *)
(* number or string property the record [t, v] JSON has for it; numbers    *)
(* are the integers a double holds exactly.                                *)

\* Number(s) of a string: NaN unless s is a decimal numeral
ToNumber(s) ==
  LET neg == s # <<>> /\ Head(s) = "-"
      ds  == IF neg THEN Tail(s) ELSE s
  IN  IF ds = <<>> \/ \E i \in 1..Len(ds) : ~IsDigit(ds[i]) THEN [nan |-> TRUE, v |-> I64Zero]
      ELSE [nan |-> FALSE,
            v |-> IF neg THEN Negate(ParseMag(ds, I64Zero, FALSE)[1])
                  ELSE ParseMag(ds, I64Zero, FALSE)[1]]

\* a == b of two numbers or strings: a string is converted to a number when
\* the other is one
LooseEq(a, b) ==
  IF a.t = b.t THEN a.v = b.v
  ELSE IF a.t = "number" THEN ~ToNumber(b.v).nan /\ ToNumber(b.v).v = a.v
  ELSE ~ToNumber(a.v).nan /\ ToNumber(a.v).v = b.v

\* a === b
StrictEq(a, b) == a.t = b.t /\ a.v = b.v

\* `${x}` of a number or string
TemplateOf(x) == IF x.t = "number" THEN FormatInt(x.v) ELSE x.v

\* the access token auth.getAccessToken() gives the signed-in user
accessToken == <<"a">>

\* the id of a second repository
OtherID == <<0, 0, 0, 7>>

\* an item of the search of GitHub: its id is a number (notes, which GitHub
\* does not send, is the empty string the API makes of its absence)
GithubItem(id) == Described([t |-> "number", v |-> id], 1)

\* response.items of githubClient.getJSONRepos
SearchResults ==
  { <<>>, <<GithubItem(SmallID)>>, <<GithubItem(OtherID)>>,
    <<GithubItem(SmallID), GithubItem(OtherID)>> }

\* the object JSON.parse makes of a kudo the API sent: its id is a string
ParseKudo(j) ==
  [t |-> "object", id |-> [t |-> "string", v |-> j.id], user_id |-> j.user_id,
   full_name |-> j.full_name, html_url |-> j.html_url, language |-> j.language,
   description |-> j.description, notes |-> j.notes]

\* the arrays JSON.parse can make of the body of GET /kudos, whose order the
\* database chooses
RECURSIVE ArraysOf(_)
ArraysOf(items) ==
  IF items = EmptyBag THEN {<<>>}
  ELSE UNION { {<<ParseKudo(j)>> \o rest : rest \in ArraysOf(items (-) SetToBag({j}))}
               : j \in BagToSet(items) }

\* resp.data ? resp.data : [] of APIClient.perform, for the body w wrote
DataOf(w) == IF w.body.t = "array" THEN ArraysOf(w.body.items) ELSE {<<>>}

\* APIClient.perform(method, resource, data): the request axios sends
perform(method, id, data) ==
  [method |-> method, Authorization |-> BearerOf(accessToken), body |-> data, id |-> id]

createKudo(repo) == perform("POST", <<>>, repo)

deleteKudo(repo) == perform("DELETE", TemplateOf(repo.id), NoPayload)

getKudos == perform("GET", <<>>, NoPayload)

\* isKudo: this.state.kudos.find(r => r.id == repo.id), taken as a boolean
isKudo(st, repo) == \E i \in 1..Len(st.kudos) : LooseEq(st.kudos[i].id, repo.id)

\* kudos.filter(r => r.id !== repo.id)
RECURSIVE FilterOut(_, _)
FilterOut(kudos, repo) ==
  IF kudos = <<>> THEN <<>>
  ELSE IF ~StrictEq(Head(kudos).id, repo.id)
    THEN <<Head(kudos)>> \o FilterOut(Tail(kudos), repo)
  ELSE FilterOut(Tail(kudos), repo)

\* the call updateBackend makes
updateBackend(st, repo) == IF isKudo(st, repo) THEN deleteKudo(repo) ELSE createKudo(repo)

\* the state updateState sets
updateState(st, repo) ==
  IF isKudo(st, repo) THEN [st EXCEPT !.kudos = FilterOut(@, repo)]
  ELSE [st EXCEPT !.kudos = <<repo>> \o @]

\* the repos renderRepos gives a GithubRepo with a kudo button
Rendered(st) ==
  {st.kudos[i] : i \in 1..Len(st.kudos)} \cup {st.repos[i] : i \in 1..Len(st.repos)}

\* SecureRoute shows "/home" to the signed-in user: componentDidMount gets
\* the access token and calls getKudos
HomeMount ==
  /\ browser.route = "/home"
  /\ browser.signedIn
  /\ ~home.mounted
  /\ home' = [NoHome EXCEPT !.mounted = TRUE, !.requests = <<getKudos>>]
  /\ UNCHANGED <<intSize, coll, resp, ret, inflight, observed, browser, login>>

\* the requests without the i-th
Without(requests, i) == SubSeq(requests, 1, i - 1) \o SubSeq(requests, i + 1, Len(requests))

\* axios settles the promise of a call with the response: it is resolved
\* when the status is one of 2xx, rejected for every other
Resolved(w) == w.status >= 200 /\ w.status < 300

\* the server answers one of the calls, the database reachable or not; the
\* then of getKudos sets the kudos when the promise is resolved, nothing
\* handles the promise of createKudo and deleteKudo or a rejection
ApiResponds ==
  \E i \in 1..Len(home.requests), up \in BOOLEAN :
    LET st == ServeHTTP(home.requests[i], coll, up)
    IN  /\ home.click = NoClick
        /\ home.search = NoSearch
        /\ coll' = st.coll
        /\ IF home.requests[i].method = "GET" /\ Resolved(st.w)
             THEN \E data \in DataOf(st.w) :
                    home' = [home EXCEPT !.state.kudos = data,
                                         !.requests = Without(@, i)]
           ELSE home' = [home EXCEPT !.requests = Without(@, i)]
        /\ UNCHANGED <<intSize, resp, ret, inflight, observed, browser, login>>

\* onKudo(repo), the click on the kudo button of a rendered repo:
\* updateBackend, then updateState
onKudo ==
  \E repo \in Rendered(home.state) :
    /\ home.mounted
    /\ home.click = NoClick
    /\ home.search = NoSearch
    /\ Len(home.requests) < MaxRequests
    /\ home' = [home EXCEPT
                  !.state = updateState(home.state, repo),
                  !.requests = Append(@, updateBackend(home.state, repo)),
                  !.click = [on |-> TRUE, repo |-> repo, before |-> home.state,
                             call |-> updateBackend(home.state, repo)]]
    /\ UNCHANGED <<intSize, coll, resp, ret, inflight, observed, browser, login>>

\* the render after the click, the key event or the answer of a search,
\* which React makes before anything else runs
HomeRender ==
  /\ home.click # NoClick \/ home.search # NoSearch
  /\ home' = [home EXCEPT !.click = NoClick, !.search = NoSearch]
  /\ UNCHANGED <<intSize, coll, resp, ret, inflight, observed, browser, login>>

\* x < n of a property and a number: undefined (a property the object does
\* not have) is converted to NaN, and a comparison with NaN is false
LessThan(x, n) == x.t = "number" /\ x.v < n

\* onSearch goes past its two returns: !target.value is true of the empty
\* string only
PastReturns(event) ==
  /\ ~(event.target.value = <<>> \/ LessThan(event.target.length, 3))
  /\ ~(event.which # 13)

\* githubClient.getJSONRepos(query), added to the searches under way as the
\* one made last
getJSONRepos(searches, query) ==
  Append([i \in 1..Len(searches) |-> [searches[i] EXCEPT !.latest = FALSE]],
         [query |-> query, latest |-> TRUE])

\* this.setState(update): the properties of update replace those of st
setState(st, update) ==
  [k \in DOMAIN st |-> IF k \in DOMAIN update THEN update[k] ELSE st[k]]

\* the state after the two setState of the then of onSearch.  React applies
\* a setState at once (this.state is the new state when resetRepos reads
\* it) or, when it batches, after the callback (resetRepos reads the state
\* the callback began with)
thenOnSearch(st, items, batched) ==
  IF batched
    THEN setState(setState(st, [st EXCEPT !.value = 1]), [st EXCEPT !.repos = items])
  ELSE setState(setState(st, [st EXCEPT !.value = 1]),
                [setState(st, [st EXCEPT !.value = 1]) EXCEPT !.repos = items])

\* onSearch(event), the onKeyPress of the search input: the key is Enter
\* (13) or the letter a (97), the text of the input empty or of 2 or 3
\* characters; event.target is the input element InputBase renders, which
\* has the property value and no property length
onSearch ==
  \E which \in {13, 97}, value \in {<<>>, <<"g", "o">>, <<"g", "o", "l">>} :
    /\ home.mounted
    /\ home.click = NoClick
    /\ home.search = NoSearch
    /\ Len(home.searches) < MaxSearches
    /\ home' = [home EXCEPT
                  !.searches = IF PastReturns([which |-> which,
                                               target |-> [value |-> value,
                                                           length |-> [t |-> "undefined"]]])
                                 THEN getJSONRepos(@, value)
                               ELSE @,
                  !.search = [kind |-> "key", which |-> which, value |-> value,
                              before |-> home.state, waiting |-> home.searches]]
    /\ UNCHANGED <<intSize, coll, resp, ret, inflight, observed, browser, login>>

\* the then of onSearch: GitHub has answered one of the searches under way
onSearchThen ==
  \E i \in 1..Len(home.searches), items \in SearchResults, batched \in BOOLEAN :
    /\ home.click = NoClick
    /\ home.search = NoSearch
    /\ home' = [home EXCEPT
                  !.state = thenOnSearch(@, items, batched),
                  !.searches = Without(@, i),
                  !.search = [kind |-> "then", items |-> items, before |-> home.state,
                              latest |-> home.searches[i].latest]]
    /\ UNCHANGED <<intSize, coll, resp, ret, inflight, observed, browser, login>>

\* handleTabChange, handleTabChangeIndex
handleTabChange ==
  \E value \in {0, 1} :
    /\ home.mounted
    /\ home.click = NoClick
    /\ home.search = NoSearch
    /\ home' = [home EXCEPT !.state.value = value]
    /\ UNCHANGED <<intSize, coll, resp, ret, inflight, observed, browser, login>>

NextApp ==
  \/ LoginMount \/ checkAuthentication \/ OnClickLogin \/ SignedIn
  \/ OpenRoot \/ logout
  \/ HomeMount \/ ApiResponds \/ onKudo \/ HomeRender \/ onSearch
  \/ onSearchThen \/ handleTabChange

SpecApp == Init /\ [][NextApp]_vars

----------------------------------------------------------------------------
(* Properties of the web app *)

\* C18: once isAuthenticated has told the mounted Login component that the
\* user is signed in, Login shows the redirection to "/home"; as long as it
\* has not, Login shows the button "Login with Okta", and a click on it
\* calls auth.login('/home').
C18_LoginRedirects ==
  /\ (login.mounted /\ login.state.authenticated = "true") => login.view = "redirect /home"
  /\ (login.mounted /\ login.state.authenticated # "true") => login.view = "button"
  /\ browser.asked \in {"", "/home"}

\* the text of an id, number or string
IdText(id) == IF id.t = "number" THEN FormatInt(id.v) ELSE id.v

\* the list kudos has an entry of the repository of repo
Bookmarked(kudos, repo) == \E i \in 1..Len(kudos) : IdText(kudos[i].id) = IdText(repo.id)

\* C19: a click on the kudo button of a repo that is bookmarked (the kudos
\* have an entry with its id) calls DELETE /kudos/<id> and takes the entry
\* out of the kudos, so that isKudo(repo) is false after it; a click on one
\* that is not bookmarked calls POST /kudos with the repo and puts it in
\* front of the kudos.  This holds for an object of the search (its id a
\* number) and for one of the kudos the API sent (its id a string).
C19_KudoToggles ==
  home.click # NoClick =>
    IF Bookmarked(home.click.before.kudos, home.click.repo)
      THEN /\ home.click.call = deleteKudo(home.click.repo)
           /\ ~Bookmarked(home.state.kudos, home.click.repo)
           /\ ~isKudo(home.state, home.click.repo)
    ELSE /\ home.click.call = createKudo(home.click.repo)
         /\ home.state.kudos = <<home.click.repo>> \o home.click.before.kudos

----------------------------------------------------------------------------
(* The Home component as it is before the API is called (the version with  *)
(* the kudos in the state of the component only; App renders it directly). *)
(* Its objects have an identity, ref, which includes compares.             *)

\* the object {id, full_name, description} made at the place ref
ObjectOf(ref, n, name) ==
  [ref |-> ref, id |-> [t |-> "number", v |-> <<0, 0, 0, n>>],
   full_name |-> name, description |-> "lorem...."]

\* the name GitHub has for the repository n
NameOf(n) == IF n = 1 THEN "foo" ELSE IF n = 2 THEN "bar" ELSE "baz"

\* the ids of response.items of the searches
EarlyResults == {<<>>, <<2>>, <<3>>, <<1, 2>>, <<2, 3>>}

\* the places of the objects the state holds
LiveRefs(st) == {o.ref : o \in Rendered(st)}

\* the place of a new object: one no object of live is at
FreshRef(live) == CHOOSE n \in 1..(Cardinality(live) + 1) : n \notin live

\* the new objects JSON.parse makes of the items with the ids ns
RECURSIVE FreshObjects(_, _)
FreshObjects(ns, live) ==
  IF ns = <<>> THEN <<>>
  ELSE <<ObjectOf(FreshRef(live), Head(ns), NameOf(Head(ns)))>>
         \o FreshObjects(Tail(ns), live \cup {FreshRef(live)})

\* isKudo: this.state.kudos.includes(repo)
isKudoEarly(st, repo) == \E i \in 1..Len(st.kudos) : st.kudos[i].ref = repo.ref

\* this.state.kudos.find(r => r.id === repo.id) of onKudo, taken as a boolean
findKudo(st, repo) == \E i \in 1..Len(st.kudos) : StrictEq(st.kudos[i].id, repo.id)

\* the state onKudo(repo) sets
onKudoState(st, repo) ==
  IF findKudo(st, repo) THEN [st EXCEPT !.kudos = FilterOut(@, repo)]
  ELSE [st EXCEPT !.kudos = <<repo>> \o @]

\* App renders Home: the state of the class
HomeMountEarly ==
  /\ ~home.mounted
  /\ home' = [NoHome EXCEPT
                !.mounted = TRUE,
                !.state = [value |-> 0,
                           repos |-> <<ObjectOf(1, 1, "foo")>>,
                           kudos |-> <<ObjectOf(2, 2, "bar")>>]]
  /\ UNCHANGED <<intSize, coll, resp, ret, inflight, observed, browser, login>>

\* onKudo(repo), the click on the kudo button of a rendered repo
onKudoEarly ==
  \E repo \in Rendered(home.state) :
    /\ home.mounted
    /\ home' = [home EXCEPT !.state = onKudoState(home.state, repo)]
    /\ UNCHANGED <<intSize, coll, resp, ret, inflight, observed, browser, login>>

\* the then of onSearch: GitHub has answered the search with new objects
onSearchEarly ==
  \E ns \in EarlyResults :
    /\ home.mounted
    /\ home' = [home EXCEPT !.state.value = 1,
                            !.state.repos = FreshObjects(ns, LiveRefs(home.state))]
    /\ UNCHANGED <<intSize, coll, resp, ret, inflight, observed, browser, login>>

\* handleTabChange, handleTabChangeIndex
handleTabChangeEarly ==
  \E value \in {0, 1} :
    /\ home.mounted
    /\ home' = [home EXCEPT !.state.value = value]
    /\ UNCHANGED <<intSize, coll, resp, ret, inflight, observed, browser, login>>

NextHomeEarly == HomeMountEarly \/ onKudoEarly \/ onSearchEarly \/ handleTabChangeEarly

SpecHomeEarly == Init /\ [][NextHomeEarly]_vars

\* C20: in every state of Home, for every repo it renders, the flag isKudo
\* it gives the GithubRepo is true exactly when the kudos have an entry with
\* the id of the repo, that is when onKudo(repo) would take the branch that
\* removes the kudo; also for an object of a search that is another object
\* than the kudo with its id.
C20_IsKudoIsBookmarked ==
  \A repo \in Rendered(home.state) :
    isKudoEarly(home.state, repo) <=> findKudo(home.state, repo)

----------------------------------------------------------------------------
(* The key a PUT writes *)

\* C21: an authenticated PUT /kudos/:id changes the documents of one key
\* only, the user of the request with the :id of its path: the documents of
\* every other key are as they were before, whatever id the body carries.
C21_UpdateKeyIsPathID ==
  (resp.r.method = "PUT" /\ resp.ctx.has) =>
    \A d \in BagToSet(coll) \cup BagToSet(resp.before) :
      (d.userId # resp.ctx.userId \/ d.repoId # resp.r.id)
        => CopiesIn(d, coll) = CopiesIn(d, resp.before)

----------------------------------------------------------------------------
(* The kudos of Home and the kudos of the server *)

\* the repository ids of the list kudos
ClientIDs(kudos) == {IdText(kudos[i].id) : i \in 1..Len(kudos)}

\* the repository ids of the documents c has of owner
ServerIDs(c, owner) == {d.repoId : d \in {e \in BagToSet(c) : e.userId = owner}}

\* C22: when Home waits for no call of the API (the getKudos of its mount
\* and the call of every click have been answered), the repository ids of
\* its kudos are those of the documents the server has of its user; also
\* after a call that failed, after calls answered in another order than
\* made, and after a click made before getKudos was answered.
C22_ClientServerAgreement ==
  (home.mounted /\ home.requests = <<>> /\ home.click = NoClick)
    => ClientIDs(home.state.kudos) = ServerIDs(coll, Issued[accessToken])

----------------------------------------------------------------------------
(* The search of Home *)

\* C23: when the then of onSearch has handled an answer of GitHub, the tab
\* shown is the search tab (value 1), the repos are the items of the answer
\* and the kudos are those before it, whether React applied the two
\* setState at once or batched them; and when no search is under way any
\* more, the answer handled last is that of the search made last.
C23_SearchShown ==
  home.search.kind = "then" =>
    /\ home.state.value = 1
    /\ home.state.repos = home.search.items
    /\ home.state.kudos = home.search.before.kudos
    /\ (home.searches = <<>> => home.search.latest)

\* C24: a key event in the search input makes a search of GitHub, for the
\* text of the input, exactly when the key is Enter (which = 13) and the
\* text is not empty and has 3 characters or more; every other key event
\* makes no search and leaves the state as it was.
C24_SearchOnlyOnEnter ==
  home.search.kind = "key" =>
    IF home.search.which = 13 /\ home.search.value # <<>> /\ Len(home.search.value) >= 3
      THEN home.searches = getJSONRepos(home.search.waiting, home.search.value)
    ELSE /\ home.searches = home.search.waiting
         /\ home.state = home.search.before

====
